---- MODULE Spec2Model ----
(***************************************************************************)
(* Model of pyvmomi_tools/extensions/credstore.py: the PasswordEntry       *)
(* deobfuscator (32-bit string hash, constant-byte XOR, NUL termination)   *)
(* and the VICredStore host map built from a parsed credentials document.  *)
(*                                                                         *)
(* Strings are sequences of Unicode code points.  TLC integers are 32 bits *)
(* wide, so the unbounded Python accumulator of _compute_hash is held as   *)
(* two limbs (value = hi * 2^16 + lo, 0 <= lo < 2^16).                     *)
(***************************************************************************)
EXTENDS Integers, Sequences, FiniteSets, TLC

VARIABLES
    path_exists, \* os.path.exists(self.__path)
    root,        \* VICredStore.__root: the parsed document's child elements
    hostdata,    \* VICredStore.__hostdata: host -> PasswordEntry
    state,       \* "unconstructed" | "ready"
    result,      \* outcome of the last store call: the value returned, the
                 \* exception raised, or the lines printed
    text,        \* argument of the running _compute_hash call
    hpos,        \* number of characters the hash loop has consumed
    hash_value,  \* the loop's accumulator
    entry,       \* the PasswordEntry a direct get_pwd call is made on
    origin,      \* how entry.password was produced: read raw, or obfuscated
                 \* from a plaintext and what follows it in the buffer
    dresult,     \* outcome of the direct get_pwd call
    lhs,         \* left operand of PasswordEntry.__eq__
    rhs,         \* right operand of PasswordEntry.__eq__
    hashseed,    \* seed of the interpreter's built-in string hash
    eqresult     \* outcome of lhs == rhs

vars == <<path_exists, root, hostdata, state, result, text, hpos, hash_value,
          entry, origin, dresult, lhs, rhs, hashseed, eqresult>>

storeVars == <<path_exists, root, hostdata, state, result>>
hashVars == <<text, hpos, hash_value>>
deobVars == <<entry, origin, dresult>>
eqVars == <<lhs, rhs, hashseed, eqresult>>

(***************************************************************************)
(* Bounds of the model.                                                    *)
(***************************************************************************)
MaxTextLen == 7
MaxRoot == 3
MaxPlainLen == 3
MaxSeed == 2

(***************************************************************************)
(* Integer helpers.                                                        *)
(***************************************************************************)
Limb == 65536
HalfLimb == 32768

Bit(a, i) == (a \div (2 ^ i)) % 2
XorBit(a, k, i) == ((Bit(a, i) + Bit(k, i)) % 2) * (2 ^ i)

\* a ^ k for a >= 0 and a byte k: the bits above the low eight are those of a
Xor(a, k) ==
    (a \div 256) * 256
        + XorBit(a, k, 0) + XorBit(a, k, 1) + XorBit(a, k, 2) + XorBit(a, k, 3)
        + XorBit(a, k, 4) + XorBit(a, k, 5) + XorBit(a, k, 6) + XorBit(a, k, 7)

\* None, where a str is expected: no str holds a negative code point
None == <<-1>>

(***************************************************************************)
(* PasswordEntry._compute_hash                                             *)
(***************************************************************************)
\* hash_value * 31 + ord(my_char), as the limb pair <<hi, lo>>
Accumulate(h, c) ==
    LET t == (h % Limb) * 31 + c
    IN  <<(h \div Limb) * 31 + (t \div Limb), t % Limb>>

\* variant: the sign bit is never extended
NormaliseUnsigned(acc) == (acc[1] % HalfLimb) * Limb + acc[2]

\* if hash_value & negative: hash_value |= ~boundary
\* else:                     hash_value &= boundary
Normalise(acc) ==
    LET hi == acc[1]
        lo == acc[2]
    IN  IF (hi \div HalfLimb) % 2 = 1
        THEN ((hi % HalfLimb) - HalfLimb) * Limb + lo
        ELSE (hi % HalfLimb) * Limb + lo

\* one iteration of the for loop
HashStep(h, c) == Normalise(Accumulate(h, c))

RECURSIVE HashFold(_, _, _, _)
\* the loop over s[lo..hi] from left to right, entered with hash_value = h
\* (halving keeps the nesting shallow; the test makes the left half's result
\* a value before the right half starts from it)
HashFold(h, s, lo, hi) ==
    IF lo > hi THEN h
    ELSE IF lo = hi THEN HashStep(h, s[lo])
    ELSE LET mid == (lo + hi) \div 2
             left == HashFold(h, s, lo, mid)
         IN  IF left = left THEN HashFold(left, s, mid + 1, hi) ELSE left

\* the whole call
compute_hash(s) == HashFold(0, s, 1, Len(s))

(***************************************************************************)
(* base64.b64decode(s) of a str, as PasswordEntry._deobfuscate calls it:   *)
(* the str must be ASCII; characters outside the alphabet are discarded    *)
(* (validate=False); '=' ends the data once a quad holds two characters    *)
(* or more; a quad left open at the end is "Incorrect padding".            *)
(***************************************************************************)
Ok(v) == [status |-> "ok", value |-> v]
Raise(e) == [status |-> "raise", exc |-> e]

B64Value(ch) ==
    IF ch >= 65 /\ ch <= 90 THEN ch - 65
    ELSE IF ch >= 97 /\ ch <= 122 THEN ch - 71
    ELSE IF ch >= 48 /\ ch <= 57 THEN ch + 4
    ELSE IF ch = 43 THEN 62
    ELSE IF ch = 47 THEN 63
    ELSE -1

B64Pad == 61

\* one input character of binascii.a2b_base64 (non-strict)
A2BStep(st, ch) ==
    LET v == B64Value(ch)
    IN  IF st.done THEN st
        ELSE IF ch = B64Pad
        THEN IF st.quad >= 2 /\ st.quad + st.pads + 1 >= 4
             THEN [st EXCEPT !.done = TRUE]
             ELSE IF st.quad >= 2 THEN [st EXCEPT !.pads = @ + 1] ELSE st
        ELSE IF v = -1 THEN st
        ELSE IF st.quad = 0
        THEN [st EXCEPT !.quad = 1, !.left = v, !.pads = 0]
        ELSE IF st.quad = 1
        THEN [st EXCEPT !.quad = 2, !.left = v % 16, !.pads = 0,
                        !.out = Append(@, st.left * 4 + (v \div 16))]
        ELSE IF st.quad = 2
        THEN [st EXCEPT !.quad = 3, !.left = v % 4, !.pads = 0,
                        !.out = Append(@, st.left * 16 + (v \div 4))]
        ELSE [st EXCEPT !.quad = 0, !.left = 0, !.pads = 0,
                        !.out = Append(@, st.left * 64 + v)]

RECURSIVE A2BFold(_, _, _, _)
\* A2BStep over s[lo..hi] from left to right (halving keeps the nesting shallow)
A2BFold(st, s, lo, hi) ==
    IF lo > hi THEN st
    ELSE IF lo = hi THEN A2BStep(st, s[lo])
    ELSE LET mid == (lo + hi) \div 2
             left == A2BFold(st, s, lo, mid)
         IN  \* the test makes the left half's result a value before the right
             \* half starts from it
             IF left = left THEN A2BFold(left, s, mid + 1, hi) ELSE left

a2b_base64(s) ==
    LET st == A2BFold([quad |-> 0, left |-> 0, pads |-> 0, out |-> << >>,
                       done |-> FALSE], s, 1, Len(s))
    IN  IF ~st.done /\ st.quad # 0 THEN Raise("binascii.Error") ELSE Ok(st.out)

b64decode(s) ==
    IF \E i \in 1..Len(s) : s[i] > 127
    THEN Raise("ValueError")
    ELSE a2b_base64(s)

(***************************************************************************)
(* bytes.decode('UTF-8'), strict: shortest form only, no surrogates,       *)
(* nothing above U+10FFFF, no truncated sequence.                          *)
(***************************************************************************)
\* one input byte; need = continuation bytes still due, lower..upper = the
\* range the next continuation byte must lie in
Utf8Step(st, b) ==
    IF st.err THEN st
    ELSE IF st.need = 0
    THEN IF b <= 127 THEN [st EXCEPT !.out = Append(@, b)]
         ELSE IF b >= 194 /\ b <= 223
         THEN [st EXCEPT !.need = 1, !.cp = b % 32, !.lower = 128, !.upper = 191]
         ELSE IF b >= 224 /\ b <= 239
         THEN [st EXCEPT !.need = 2, !.cp = b % 16,
                         !.lower = IF b = 224 THEN 160 ELSE 128,
                         !.upper = IF b = 237 THEN 159 ELSE 191]
         ELSE IF b >= 240 /\ b <= 244
         THEN [st EXCEPT !.need = 3, !.cp = b % 8,
                         !.lower = IF b = 240 THEN 144 ELSE 128,
                         !.upper = IF b = 244 THEN 143 ELSE 191]
         ELSE [st EXCEPT !.err = TRUE]
    ELSE IF b < st.lower \/ b > st.upper THEN [st EXCEPT !.err = TRUE]
    ELSE LET cp == st.cp * 64 + (b % 64)
         IN  IF st.need = 1
             THEN [st EXCEPT !.need = 0, !.cp = 0, !.out = Append(@, cp)]
             ELSE [st EXCEPT !.need = @ - 1, !.cp = cp, !.lower = 128, !.upper = 191]

RECURSIVE Utf8Fold(_, _, _, _)
\* Utf8Step over b[lo..hi] from left to right
Utf8Fold(st, b, lo, hi) ==
    IF lo > hi THEN st
    ELSE IF lo = hi THEN Utf8Step(st, b[lo])
    ELSE LET mid == (lo + hi) \div 2
             left == Utf8Fold(st, b, lo, mid)
         IN  IF left = left THEN Utf8Fold(left, b, mid + 1, hi) ELSE left

utf8_decode(b) ==
    LET st == Utf8Fold([need |-> 0, cp |-> 0, lower |-> 128, upper |-> 191,
                        out |-> << >>, err |-> FALSE], b, 1, Len(b))
    IN  IF st.err \/ st.need # 0 THEN Raise("UnicodeDecodeError") ELSE Ok(st.out)

(***************************************************************************)
(* PasswordEntry                                                           *)
(***************************************************************************)
PasswordEntry(host, username, password) ==
    [host |-> host, username |-> username, password |-> password]

hashmod == 256

\* variant: a zero is skipped instead of ending the loop
AppendStepSkipZero(st, ci) ==
    IF ci = 0 THEN st ELSE [st EXCEPT !.decrypted_pwd = Append(@, ci)]

\* for ci in password_final: if ci == 0: break; decrypted_pwd += chr(ci)
AppendStep(st, ci) ==
    IF st.done THEN st
    ELSE IF ci = 0 THEN [st EXCEPT !.done = TRUE]
    ELSE [st EXCEPT !.decrypted_pwd = Append(@, ci)]

RECURSIVE AppendFold(_, _, _, _)
\* AppendStep over s[lo..hi] from left to right
AppendFold(st, s, lo, hi) ==
    IF lo > hi THEN st
    ELSE IF lo = hi THEN AppendStep(st, s[lo])
    ELSE LET mid == (lo + hi) \div 2
             left == AppendFold(st, s, lo, mid)
         IN  IF left = left THEN AppendFold(left, s, mid + 1, hi) ELSE left

UntilZero(s) ==
    AppendFold([decrypted_pwd |-> << >>, done |-> FALSE], s, 1, Len(s)).decrypted_pwd

\* variant: the key is hashed from username + host
KeyByteSwapped(e) == (compute_hash(e.username \o e.host) % hashmod) % 256

\* the key byte, ord(crypt[n]) for every n: hash_value & 0xFF of a hash_value
\* that is not negative
KeyByte(e) == (compute_hash(e.host \o e.username) % hashmod) % 256

\* base64.b64decode(self.__password).decode('UTF-8')
DecodePassword(e) ==
    LET raw == b64decode(e.password)
    IN  IF raw.status = "ok" THEN utf8_decode(raw.value) ELSE raw

deobfuscate(e) ==
    LET password == DecodePassword(e)
    IN  IF password.status # "ok" THEN password
        ELSE LET key == KeyByte(e)
                 password_final ==
                     [n \in 1..Len(password.value) |-> Xor(password.value[n], key)]
             IN  \* the test makes the key a value before the loops use it
                 IF key = key THEN Ok(UntilZero(password_final)) ELSE password

get_pwd(e) == deobfuscate(e)

\* variant: the host is returned in place of the username
get_user_host(e) == e.host

get_user(e) == e.username
get_host(e) == e.host

\* --- the call as a process: one loop iteration per step -----------------
HashAlphabet == {97, 122, 1114111}

SeqsUpTo(S, n) == UNION {[1..k -> S] : k \in 0..n}

IdleStore ==
    /\ path_exists = FALSE
    /\ root = << >>
    /\ hostdata = << >>
    /\ state = "unconstructed"
    /\ result = [op |-> "none", arg |-> None, out |-> Ok(None)]

IdleHash ==
    /\ text = << >>
    /\ hpos = 0
    /\ hash_value = 0

IdleDeob ==
    /\ entry = [host |-> << >>, username |-> << >>, password |-> << >>]
    /\ origin = [kind |-> "raw", plaintext |-> << >>, tail |-> << >>]
    /\ dresult = [status |-> "none", value |-> << >>]

IdleEq ==
    /\ lhs = [cls |-> "PasswordEntry", fields |-> << >>]
    /\ rhs = [cls |-> "PasswordEntry", fields |-> << >>]
    /\ hashseed = 0
    /\ eqresult = "none"

InitHash ==
    /\ text \in SeqsUpTo(HashAlphabet, MaxTextLen)
    /\ hpos = 0
    /\ hash_value = 0
    /\ IdleStore /\ IdleDeob /\ IdleEq

HashLoop ==
    /\ hpos < Len(text)
    /\ hash_value' = HashStep(hash_value, text[hpos + 1])
    /\ hpos' = hpos + 1
    /\ UNCHANGED <<text, storeVars, deobVars, eqVars>>

NextHash == HashLoop

SpecHash == InitHash /\ [][NextHash]_vars

(***************************************************************************)
(* Strings of the modelled documents.                                      *)
(***************************************************************************)
StrZeta == <<122, 101, 116, 97>>
StrAlpha == <<97, 108, 112, 104, 97>>
StrMid == <<109, 105, 100>>
StrMyTestHost == <<109, 121, 116, 101, 115, 116, 104, 111, 115, 116>>
StrNotExistantHost ==
    <<110, 111, 116, 101, 120, 105, 115, 116, 97, 110, 116, 104, 111, 115, 116>>
StrTestUser == <<116, 101, 115, 116, 117, 115, 101, 114>>
StrTestPassword == <<116, 101, 115, 116, 112, 97, 115, 115, 119, 111, 114, 100>>
StrU1 == <<117, 49>>
StrU2 == <<117, 50>>
\* the password of tests/test_credstore.py
B64Reference ==
    <<78, 121, 89, 119, 78, 122, 77, 105, 77, 68, 65, 48, 76, 68, 69, 110, 81,
      119, 89, 54, 69, 119, 111, 87, 70, 72, 115, 73, 78, 103, 85, 119, 100, 67,
      86, 49, 99, 103, 49, 119, 68, 121, 85, 116, 74, 66, 115, 115, 71, 51, 99,
      105, 99, 82, 69, 55, 77, 81, 99, 86, 75, 120, 112, 49, 70, 104, 115, 79,
      72, 66, 77, 114, 100, 83, 65, 83, 78, 119, 111, 74, 67, 88, 77, 50, 99,
      106, 85, 97, 79, 121, 48, 74, 74, 88, 115, 73, 70, 88, 78, 50, 69, 103,
      65, 115, 75, 122, 85, 109, 101, 105, 85, 54, 69, 122, 73, 118, 99, 105,
      115, 114, 66, 65, 69, 73, 100, 103, 56, 55, 73, 81, 115, 55, 74, 82, 73,
      51, 68, 82, 119, 81, 77, 82, 115, 65, 77, 119, 73, 71, 74, 119, 56, 67,
      65, 88, 81, 117, 68, 106, 115, 108, 74, 82, 69, 82, 75, 110, 69, 109, 66,
      48, 77, 61>>
\* "RwdXRlFANExN": s3cret, NUL, xy under the key of zeta+u1
B64ZetaU1 == <<82, 119, 100, 88, 82, 108, 70, 65, 78, 69, 120, 78>>
\* "Sk0L": pw1 under the key of alpha+u1
B64AlphaU1 == <<83, 107, 48, 76>>
\* "S0wJOw==": pw2, NUL under the key of alpha+u2
B64AlphaU2 == <<83, 48, 119, 74, 79, 119, 61, 61>>
\* "w4jDjMOBwoTCpcKlw5Q=": mid!, NUL, NUL, q under the key of mid+u2
B64MidU2 ==
    <<119, 52, 106, 68, 106, 77, 79, 66, 119, 111, 84, 67, 112, 99, 75, 108,
      119, 53, 81, 61>>
\* "YQ": a quad left open
B64OpenQuad == <<89, 81>>
\* "/w==": the byte FF, which is not UTF-8
B64NotUtf8 == <<47, 119, 61, 61>>
\* "!!!!": no character of the base64 alphabet
B64NoAlphabet == <<33, 33, 33, 33>>

(***************************************************************************)
(* The parsed document: VICredStore.__root is a sequence of elements, each *)
(* with a tag and child elements carrying a tag and a text (None when the  *)
(* element is empty).                                                      *)
(***************************************************************************)
Child(tag, txt) == [tag |-> tag, text |-> txt]
Element(tag, children) == [tag |-> tag, children |-> children]
Triple(tag, h, u, p) ==
    Element(tag, <<Child("host", h), Child("username", u), Child("password", p)>>)

Elements ==
    { \* an element that is no passwordEntry, with all three fields
      Triple("credential", StrMid, StrU2, B64MidU2),
      \* complete entries
      Triple("passwordEntry", StrMyTestHost, StrTestUser, B64Reference),
      Triple("passwordEntry", StrZeta, StrU1, B64ZetaU1),
      Triple("passwordEntry", StrAlpha, StrU1, B64AlphaU1),
      Triple("passwordEntry", StrAlpha, StrU2, B64NoAlphabet),
      Triple("passwordEntry", StrMid, StrU1, B64OpenQuad),
      \* no username child
      Element("passwordEntry",
              <<Child("host", StrAlpha), Child("password", B64AlphaU2)>>),
      \* the last host child is empty
      Element("passwordEntry",
              <<Child("password", B64ZetaU1), Child("comment", StrU1),
                Child("username", StrU2), Child("host", StrZeta),
                Child("host", None)>>) }

Hostnames == {StrZeta, StrAlpha, StrMid, StrMyTestHost, StrNotExistantHost}

(***************************************************************************)
(* dict: the pairs <<key, value>> in insertion order; assigning to a key   *)
(* that is present replaces its value in place.                            *)
(***************************************************************************)
DictKeys(d) == [i \in 1..Len(d) |-> d[i][1]]
DictHas(d, k) == \E i \in 1..Len(d) : d[i][1] = k
DictGet(d, k) == d[CHOOSE i \in 1..Len(d) : d[i][1] = k][2]
DictSet(d, k, v) ==
    IF DictHas(d, k)
    THEN [i \in 1..Len(d) |-> IF d[i][1] = k THEN <<k, v>> ELSE d[i]]
    ELSE Append(d, <<k, v>>)

(***************************************************************************)
(* VICredStore                                                             *)
(***************************************************************************)
RECURSIVE LastText(_, _, _, _)
\* for child in entry: if child.tag == tag: cur = child.text
LastText(children, tag, i, cur) ==
    IF i > Len(children) THEN cur
    ELSE LastText(children, tag, i + 1,
                  IF children[i].tag = tag THEN children[i].text ELSE cur)

RECURSIVE PwdEntries(_, _)
\* the second loop of _get_pwd_entry_list
PwdEntries(tmp_list, i) ==
    IF i > Len(tmp_list) THEN << >>
    ELSE LET host == LastText(tmp_list[i].children, "host", 1, None)
             user == LastText(tmp_list[i].children, "username", 1, None)
             pwd == LastText(tmp_list[i].children, "password", 1, None)
         IN  (IF host # None /\ user # None /\ pwd # None
              THEN <<PasswordEntry(host, user, pwd)>>
              ELSE << >>) \o PwdEntries(tmp_list, i + 1)

\* variant: every element of the document is taken
IsAnyElement(e) == TRUE

IsPasswordEntry(e) == e.tag = "passwordEntry"

get_pwd_entry_list(r) == PwdEntries(SelectSeq(r, IsPasswordEntry), 1)

\* variant: the first entry of a host is kept
InsertKeepFirst(d, e) == IF DictHas(d, get_host(e)) THEN d ELSE DictSet(d, get_host(e), e)

\* new_hostdata[entry.get_host()] = entry
Insert(d, e) == DictSet(d, get_host(e), e)

RECURSIVE PopulateFrom(_, _, _)
PopulateFrom(pwd_list, i, new_hostdata) ==
    IF i > Len(pwd_list) THEN new_hostdata
    ELSE PopulateFrom(pwd_list, i + 1, Insert(new_hostdata, pwd_list[i]))

populate_data(r) == PopulateFrom(get_pwd_entry_list(r), 1, << >>)

\* str < str: by code point, a proper prefix first
RECURSIVE StrLess(_, _)
StrLess(a, b) ==
    IF b = << >> THEN FALSE
    ELSE IF a = << >> THEN TRUE
    ELSE IF Head(a) # Head(b) THEN Head(a) < Head(b)
    ELSE StrLess(Tail(a), Tail(b))

RECURSIVE InsertSorted(_, _)
InsertSorted(s, x) ==
    IF s = << >> THEN <<x>>
    ELSE IF StrLess(x, Head(s)) THEN <<x>> \o s
    ELSE <<Head(s)>> \o InsertSorted(Tail(s), x)

RECURSIVE SortFrom(_, _, _)
SortFrom(s, i, acc) ==
    IF i > Len(s) THEN acc ELSE SortFrom(s, i + 1, InsertSorted(acc, s[i]))

\* variant: the keys are listed as they come
unsorted(s) == s

sorted(s) == SortFrom(s, 1, << >>)

\* the lines list_entries prints
ListedHosts(d) == sorted(DictKeys(d))

\* variant: the KeyError is not translated
UserPwdKeyError(d, hostname) ==
    IF ~DictHas(d, hostname) THEN Raise("KeyError")
    ELSE LET e == DictGet(d, hostname)
             pwd == get_pwd(e)
         IN  IF pwd.status = "ok" THEN Ok(<<get_user(e), pwd.value>>) ELSE pwd

\* the outcome of get_userpwd(hostname) on host map d
UserPwd(d, hostname) ==
    IF ~DictHas(d, hostname) THEN Raise("HostNotFoundException")
    ELSE LET e == DictGet(d, hostname)
             pwd == get_pwd(e)
         IN  IF pwd.status = "ok" THEN Ok(<<get_user(e), pwd.value>>) ELSE pwd

Documents == SeqsUpTo(Elements, MaxRoot)

Init ==
    /\ path_exists \in BOOLEAN
    /\ root \in (IF path_exists THEN Documents ELSE {<< >>})
    /\ hostdata = << >>
    /\ state = "unconstructed"
    /\ result = [op |-> "none", arg |-> None, out |-> Ok(None)]
    /\ IdleHash /\ IdleDeob /\ IdleEq

\* VICredStore(path): the file is missing, or it is parsed and indexed
Construct ==
    /\ state = "unconstructed"
    /\ IF ~path_exists
       THEN /\ result' = [op |-> "init", arg |-> None,
                          out |-> Raise("NoCredentialsFileFound")]
            /\ UNCHANGED <<hostdata, state>>
       ELSE /\ hostdata' = populate_data(root)
            /\ state' = "ready"
            /\ result' = [op |-> "init", arg |-> None, out |-> Ok(None)]
    /\ UNCHANGED <<path_exists, root, hashVars, deobVars, eqVars>>

GetUserPwd(hostname) ==
    /\ state = "ready"
    /\ result' = [op |-> "get_userpwd", arg |-> hostname,
                  out |-> UserPwd(hostdata, hostname)]
    /\ UNCHANGED <<path_exists, root, hostdata, state, hashVars, deobVars, eqVars>>

ListEntries ==
    /\ state = "ready"
    /\ result' = [op |-> "list_entries", arg |-> None,
                  out |-> Ok(ListedHosts(hostdata))]
    /\ UNCHANGED <<path_exists, root, hostdata, state, hashVars, deobVars, eqVars>>

Next ==
    \/ Construct
    \/ \E hostname \in Hostnames : GetUserPwd(hostname)
    \/ ListEntries

Spec == Init /\ [][Next]_vars

(***************************************************************************)
(* PasswordEntry.get_pwd called on an entry directly.  The entry's         *)
(* password is either one of the raw strings below or the output of the    *)
(* legacy writer: each character of plaintext \o tail XOR the key byte,    *)
(* UTF-8 encoded, base64 encoded.                                          *)
(***************************************************************************)
\* hash = hash * 31 + c in unsigned 32-bit arithmetic, as <<high, low>> limbs
JavaStep(u, c) ==
    LET t == u[2] * 31 + c
    IN  <<(u[1] * 31 + (t \div Limb)) % Limb, t % Limb>>

RECURSIVE JavaFold(_, _, _, _)
JavaFold(u, s, lo, hi) ==
    IF lo > hi THEN u
    ELSE IF lo = hi THEN JavaStep(u, s[lo])
    ELSE LET mid == (lo + hi) \div 2
             left == JavaFold(u, s, lo, mid)
         IN  IF left = left THEN JavaFold(left, s, mid + 1, hi) ELSE left

\* the low 32 bits read as a two's-complement int
JavaInt(u) == IF u[1] >= HalfLimb THEN (u[1] - Limb) * Limb + u[2] ELSE u[1] * Limb + u[2]

\* Java's String.hashCode
JavaHash(s) == JavaInt(JavaFold(<<0, 0>>, s, 1, Len(s)))

Utf8Encode1(c) ==
    IF c < 128 THEN <<c>>
    ELSE IF c < 2048 THEN <<192 + (c \div 64), 128 + (c % 64)>>
    ELSE IF c < 65536
    THEN <<224 + (c \div 4096), 128 + ((c \div 64) % 64), 128 + (c % 64)>>
    ELSE <<240 + (c \div 262144), 128 + ((c \div 4096) % 64),
           128 + ((c \div 64) % 64), 128 + (c % 64)>>

RECURSIVE Utf8Encode(_)
Utf8Encode(s) ==
    IF s = << >> THEN << >> ELSE Utf8Encode1(Head(s)) \o Utf8Encode(Tail(s))

B64Char(v) ==
    IF v < 26 THEN 65 + v
    ELSE IF v < 52 THEN 71 + v
    ELSE IF v < 62 THEN v - 4
    ELSE IF v = 62 THEN 43
    ELSE 47

RECURSIVE Base64Encode(_)
Base64Encode(b) ==
    IF Len(b) = 0 THEN << >>
    ELSE IF Len(b) = 1
    THEN <<B64Char(b[1] \div 4), B64Char((b[1] % 4) * 16), B64Pad, B64Pad>>
    ELSE IF Len(b) = 2
    THEN <<B64Char(b[1] \div 4), B64Char((b[1] % 4) * 16 + (b[2] \div 16)),
           B64Char((b[2] % 16) * 4), B64Pad>>
    ELSE <<B64Char(b[1] \div 4), B64Char((b[1] % 4) * 16 + (b[2] \div 16)),
           B64Char((b[2] % 16) * 4 + (b[3] \div 64)), B64Char(b[3] % 64)>>
         \o Base64Encode(SubSeq(b, 4, Len(b)))

Obfuscate(host, username, buf) ==
    LET key == JavaHash(host \o username) % 256
    IN  Base64Encode(Utf8Encode([i \in 1..Len(buf) |-> Xor(buf[i], key)]))

\* (host, username) pairs with the key bytes 67, 186, 58 and 0
KeyMaterial ==
    { <<StrMyTestHost, StrTestUser>>, <<StrZeta, <<114, 111, 111, 116>> >>,
      <<StrAlpha, StrU1>>, << << >>, << >> >> }

\* C, :, e-acute, the euro sign, an emoji
PlainAlphabet == {67, 58, 233, 8364, 128512}

\* what follows the plaintext in the buffer: nothing, or a NUL and padding
Tails == {<< >>, <<0>>, <<0, 67, 0, 233>>}

RawPasswords ==
    {B64Reference, B64ZetaU1, B64MidU2, B64OpenQuad, B64NotUtf8, B64NoAlphabet}

InitDeob ==
    /\ \E km \in KeyMaterial :
          \/ \E plaintext \in SeqsUpTo(PlainAlphabet, MaxPlainLen), tail \in Tails :
                /\ origin = [kind |-> "obfuscated", plaintext |-> plaintext,
                             tail |-> tail]
                /\ entry = PasswordEntry(km[1], km[2],
                                         Obfuscate(km[1], km[2], plaintext \o tail))
          \/ \E raw \in RawPasswords :
                /\ origin = [kind |-> "raw", plaintext |-> << >>, tail |-> << >>]
                /\ entry = PasswordEntry(km[1], km[2], raw)
    /\ dresult = [status |-> "none", value |-> << >>]
    /\ IdleStore /\ IdleHash /\ IdleEq

GetPwd ==
    /\ dresult.status = "none"
    /\ dresult' = get_pwd(entry)
    /\ UNCHANGED <<entry, origin, storeVars, hashVars, eqVars>>

NextDeob == GetPwd

SpecDeob == InitDeob /\ [][NextDeob]_vars

(***************************************************************************)
(* PasswordEntry.__hash__ and __eq__.  The built-in hash of a str is a     *)
(* seeded function fixed for the life of the interpreter; it is modelled   *)
(* as a seeded polynomial over a small range.                              *)
(***************************************************************************)
PyHashRange == 1009

RECURSIVE PyHashFold(_, _, _, _, _)
\* the polynomial over s[lo..hi], from left to right, starting from h
PyHashFold(seed, h, s, lo, hi) ==
    IF lo > hi THEN h
    ELSE IF lo = hi THEN (h * 33 + s[lo] + seed) % PyHashRange
    ELSE LET mid == (lo + hi) \div 2
             left == PyHashFold(seed, h, s, lo, mid)
         IN  IF left = left THEN PyHashFold(seed, left, s, mid + 1, hi) ELSE left

\* hash(s) for a str s
PyHash(seed, s) == PyHashFold(seed, seed, s, 1, Len(s))

\* PasswordEntry.__hash__
entry_hash(seed, e) ==
    PyHash(seed, e.host) + PyHash(seed, e.username) + PyHash(seed, e.password)

\* PasswordEntry.__eq__
entry_eq(seed, self, other) ==
    IF other.cls = self.cls
    THEN entry_hash(seed, self.fields) = entry_hash(seed, other.fields)
    ELSE FALSE

Instance(e) == [cls |-> "PasswordEntry", fields |-> e]

EqEntries ==
    { PasswordEntry(StrMyTestHost, StrTestUser, B64Reference),
      PasswordEntry(StrTestUser, StrMyTestHost, B64Reference),
      PasswordEntry(StrAlpha, StrU1, B64AlphaU1),
      PasswordEntry(StrAlpha, StrU1, Obfuscate(StrAlpha, StrU1, <<112, 119, 49, 0>>)),
      PasswordEntry(StrAlpha, StrU1, B64NoAlphabet),
      PasswordEntry(StrAlpha, StrU2, B64AlphaU2),
      PasswordEntry(StrAlpha, StrU2, B64AlphaU1),
      PasswordEntry(StrZeta, StrU1, B64AlphaU1),
      PasswordEntry(StrZeta, StrU1, B64OpenQuad) }

EqOperands ==
    {Instance(e) : e \in EqEntries}
        \cup {[cls |-> "str", fields |-> PasswordEntry(StrAlpha, StrU1, B64AlphaU1)]}

InitEq ==
    /\ lhs \in {Instance(e) : e \in EqEntries}
    /\ rhs \in EqOperands
    /\ hashseed \in 0..MaxSeed
    /\ eqresult = "none"
    /\ IdleStore /\ IdleHash /\ IdleDeob

Eq ==
    /\ eqresult = "none"
    /\ eqresult' = IF entry_eq(hashseed, lhs, rhs) THEN "True" ELSE "False"
    /\ UNCHANGED <<lhs, rhs, hashseed, storeVars, hashVars, deobVars>>

NextEq == Eq

SpecEq == InitEq /\ [][NextEq]_vars

(***************************************************************************)
(* Properties.                                                             *)
(***************************************************************************)
SetMax(S) == CHOOSE x \in S : \A y \in S : y <= x
SetMin(S) == CHOOSE x \in S : \A y \in S : x <= y

\* the text of the last child of el tagged tag, None when there is none
FieldOf(el, tag) ==
    LET idx == {i \in 1..Len(el.children) : el.children[i].tag = tag}
    IN  IF idx = {} THEN None ELSE el.children[SetMax(idx)].text

\* a passwordEntry element with host, username and password all present
Complete(el) ==
    /\ el.tag = "passwordEntry"
    /\ FieldOf(el, "host") # None
    /\ FieldOf(el, "username") # None
    /\ FieldOf(el, "password") # None

EntryOf(el) ==
    PasswordEntry(FieldOf(el, "host"), FieldOf(el, "username"), FieldOf(el, "password"))

\* positions of the complete records of host h in the document
CompleteAt(h) == {i \in 1..Len(root) : Complete(root[i]) /\ FieldOf(root[i], "host") = h}

\* a < b in lexicographic order of code points
LexLess(a, b) ==
    \E k \in 1..Len(b) :
        /\ \A j \in 1..(k - 1) : j <= Len(a) /\ a[j] = b[j]
        /\ (k > Len(a) \/ (k <= Len(a) /\ a[k] < b[k]))

\* the characters of the decoded ciphertext XOR the key byte
PlainOf(e) ==
    LET password == DecodePassword(e).value
    IN  [i \in 1..Len(password) |-> Xor(password[i], KeyByte(e))]

\* r is the part of plain before its first zero, all of plain when it has none
IsPrefixBeforeZero(r, plain) ==
    /\ Len(r) <= Len(plain)
    /\ \A i \in 1..Len(r) : r[i] = plain[i] /\ r[i] # 0
    /\ Len(r) < Len(plain) => plain[Len(r) + 1] = 0

\* the password the legacy format defines for entry e, its ciphertext given
LegacyPassword(e) ==
    LET password == DecodePassword(e).value
        key == JavaHash(e.host \o e.username) % 256
        plain == [i \in 1..Len(password) |-> Xor(password[i], key)]
        zeros == {i \in 1..Len(plain) : plain[i] = 0}
    IN  IF zeros = {} THEN plain ELSE SubSeq(plain, 1, SetMin(zeros) - 1)

\* C1: at every point of the loop _compute_hash holds the Java int hash of the
\* characters consumed so far - the polynomial hash*31 + c reduced to its low
\* 32 bits, read as two's complement - so the value returned is that of the
\* whole text and lies in [-2^31, 2^31 - 1]; the hash of "" is 0, of "a" is 97.
C1_HashIsJavaInt ==
    /\ hash_value = JavaHash(SubSeq(text, 1, hpos))
    /\ (hash_value \div Limb) \in (-HalfLimb)..(HalfLimb - 1)
    /\ hpos = Len(text) => hash_value = compute_hash(text)
    /\ (hpos = Len(text) /\ text = << >>) => hash_value = 0
    /\ (hpos = Len(text) /\ text = <<97>>) => hash_value = 97

\* the call has returned a positive hash after a negative accumulator
C1_Witness ==
    /\ hpos = Len(text)
    /\ hpos >= 2
    /\ hash_value > 0
    /\ compute_hash(SubSeq(text, 1, hpos - 1)) < 0

\* C2: get_userpwd of a host of the store returns the retained entry's
\* username and the password the legacy format defines for that entry (its
\* ciphertext XOR the key byte hash(host + username) mod 256, up to the first
\* NUL); for the reference entry that is ('testuser', 'testpassword').
C2_LookupReturnsCredentials ==
    (result.op = "get_userpwd" /\ DictHas(hostdata, result.arg)) =>
        LET e == DictGet(hostdata, result.arg)
        IN  /\ DecodePassword(e).status = "ok" =>
                 result.out = Ok(<<e.username, LegacyPassword(e)>>)
            /\ e = PasswordEntry(StrMyTestHost, StrTestUser, B64Reference) =>
                 result.out = Ok(<<StrTestUser, StrTestPassword>>)

C2_Witness ==
    /\ result.op = "get_userpwd"
    /\ result.arg = StrMyTestHost
    /\ result.out = Ok(<<StrTestUser, StrTestPassword>>)

\* C3: get_pwd of an entry whose password was obfuscated from a NUL-free
\* plaintext (optionally followed by a NUL and padding) with the same host
\* and username returns exactly the plaintext.
C3_RoundTrip ==
    (origin.kind = "obfuscated" /\ dresult.status # "none") =>
        dresult = Ok(origin.plaintext)

\* a plaintext with a non-ASCII character, followed by a NUL and padding,
\* under a key byte with the high bit set, has been recovered
C3_Witness ==
    /\ origin.kind = "obfuscated"
    /\ Len(origin.plaintext) >= 2
    /\ \E i \in 1..Len(origin.plaintext) : origin.plaintext[i] > 127
    /\ Len(origin.tail) > 1
    /\ KeyByte(entry) > 127
    /\ dresult = Ok(origin.plaintext)

\* C4: with one or more complete records of a host in the document, the
\* store holds exactly one entry for the host, and get_userpwd answers from
\* the last of them in document order.
C4_LastEntryWins ==
    /\ state = "ready" =>
         \A h \in Hostnames :
             CompleteAt(h) # {} =>
                 /\ Cardinality({i \in 1..Len(hostdata) : hostdata[i][1] = h}) = 1
                 /\ DictGet(hostdata, h) = EntryOf(root[SetMax(CompleteAt(h))])
    /\ (result.op = "get_userpwd" /\ CompleteAt(result.arg) # {}) =>
         LET last == EntryOf(root[SetMax(CompleteAt(result.arg))])
         IN  IF get_pwd(last).status = "ok"
             THEN result.out = Ok(<<last.username, get_pwd(last).value>>)
             ELSE result.out = get_pwd(last)

\* the host looked up has two complete records with different usernames and
\* passwords, and the later one has answered
C4_Witness ==
    /\ result.op = "get_userpwd"
    /\ Cardinality(CompleteAt(result.arg)) >= 2
    /\ LET first == EntryOf(root[SetMin(CompleteAt(result.arg))])
           last == EntryOf(root[SetMax(CompleteAt(result.arg))])
       IN  /\ first.username # last.username
           /\ first.password # last.password
           /\ result.out = Ok(<<last.username, <<112, 119, 49>> >>)

\* C5: a get_userpwd call raises HostNotFoundException exactly when the
\* hostname is no key of the host map, and the failed call leaves the host
\* map as it was, so every later lookup and listing answers as before.
C5_HostNotFound ==
    [][ (result'.op = "get_userpwd" /\ state = "ready") =>
            /\ (result'.out = Raise("HostNotFoundException"))
                   <=> ~DictHas(hostdata, result'.arg)
            /\ result'.out = Raise("HostNotFoundException") =>
                   /\ hostdata' = hostdata
                   /\ state' = state
                   /\ ListedHosts(hostdata') = ListedHosts(hostdata)
                   /\ \A h \in Hostnames : UserPwd(hostdata', h) = UserPwd(hostdata, h)
      ]_vars

\* a lookup has failed on a store that holds entries
C5_Witness ==
    /\ result.op = "get_userpwd"
    /\ result.out = Raise("HostNotFoundException")
    /\ Len(hostdata) >= 2

\* C6: list_entries prints every host of the store exactly once, in
\* lexicographic order whatever the order of the document; the hosts zeta,
\* alpha, mid are printed as alpha, mid, zeta.
C6_ListedSorted ==
    result.op = "list_entries" =>
        LET lines == result.out.value
            hosts == {FieldOf(root[i], "host") : i \in {j \in 1..Len(root) : Complete(root[j])}}
        IN  /\ result.out.status = "ok"
            /\ {lines[i] : i \in 1..Len(lines)} = hosts
            /\ Len(lines) = Cardinality(hosts)
            /\ \A i \in 1..(Len(lines) - 1) : LexLess(lines[i], lines[i + 1])
            /\ hosts = {StrZeta, StrAlpha, StrMid} => lines = <<StrAlpha, StrMid, StrZeta>>

\* the document holds zeta, alpha, mid in that order and the listing is sorted
C6_Witness ==
    /\ result.op = "list_entries"
    /\ Len(root) = 3
    /\ DictKeys(hostdata) = <<StrZeta, StrAlpha, StrMid>>
    /\ result.out = Ok(<<StrAlpha, StrMid, StrZeta>>)

\* a string of RFC 4648 base64: whole quads of alphabet characters, the last
\* one closed by at most two '='
ValidBase64(s) ==
    /\ Len(s) % 4 = 0
    /\ \A i \in 1..Len(s) :
           \/ B64Value(s[i]) # -1
           \/ s[i] = B64Pad /\ i >= Len(s) - 1 /\ (i = Len(s) - 1 => s[Len(s)] = B64Pad)

\* C7: an entry whose password is not valid base64 (or not UTF-8 once
\* decoded) does not make construction fail, its lookup raises, and lookups
\* of the other hosts answer as they would without it.
C7_MalformedEntryRaises ==
    /\ (path_exists /\ result.op = "init") => result.out.status = "ok"
    /\ (result.op = "get_userpwd" /\ DictHas(hostdata, result.arg)) =>
         LET e == DictGet(hostdata, result.arg)
         IN  /\ ~ValidBase64(e.password) => result.out.status = "raise"
             /\ (ValidBase64(e.password) /\ DecodePassword(e).status = "ok") =>
                    result.out = Ok(<<e.username, LegacyPassword(e)>>)

\* C8: two PasswordEntry values compare equal if and only if their host,
\* their username and their decoded password are all equal.
C8_EqualIffFieldsEqual ==
    (eqresult # "none" /\ rhs.cls = "PasswordEntry") =>
        ((eqresult = "True") <=>
            /\ lhs.fields.host = rhs.fields.host
            /\ lhs.fields.username = rhs.fields.username
            /\ get_pwd(lhs.fields) = get_pwd(rhs.fields))

\* C9: construction never fails on a parsed document and keeps exactly the
\* passwordEntry elements with host, username and password present, in
\* document order; every other element and record is skipped, adds no host
\* and leaves the entries of the complete records alone.
C9_OnlyCompleteRecordsKept ==
    /\ (path_exists /\ result.op = "init") => (result.out.status = "ok" /\ state = "ready")
    /\ state = "ready" =>
         LET kept == SelectSeq(root, Complete)
         IN  /\ get_pwd_entry_list(root) = [i \in 1..Len(kept) |-> EntryOf(kept[i])]
             /\ {hostdata[i][1] : i \in 1..Len(hostdata)}
                    = {FieldOf(kept[i], "host") : i \in 1..Len(kept)}
             /\ \A i \in 1..Len(hostdata) :
                    \E j \in 1..Len(kept) : hostdata[i][2] = EntryOf(kept[j])

\* a complete record of alpha is followed by an element that is no
\* passwordEntry and by a record of alpha without username; the store holds
\* the complete record alone
C9_Witness ==
    /\ state = "ready"
    /\ Len(root) = 3
    /\ Complete(root[1]) /\ FieldOf(root[1], "host") = StrAlpha
    /\ root[2].tag # "passwordEntry"
    /\ root[3].tag = "passwordEntry" /\ ~Complete(root[3])
    /\ FieldOf(root[3], "host") = StrAlpha
    /\ hostdata = <<<<StrAlpha, EntryOf(root[1])>>>>

\* C10: the password _deobfuscate returns is the part of plain (the decoded
\* ciphertext XOR the key byte) before its first zero: all of plain when it
\* holds no zero, empty when plain starts with one; it holds no NUL.
C10_TerminationRule ==
    (dresult.status # "none" /\ DecodePassword(entry).status = "ok") =>
        /\ dresult.status = "ok"
        /\ IsPrefixBeforeZero(dresult.value, PlainOf(entry))

\* a zero in the middle of plain has cut the password short of what follows
C10_Witness ==
    /\ dresult.status = "ok"
    /\ DecodePassword(entry).status = "ok"
    /\ Len(dresult.value) >= 1
    /\ Len(PlainOf(entry)) >= Len(dresult.value) + 2
    /\ PlainOf(entry)[Len(dresult.value) + 1] = 0

====
